---- MODULE Spec2Model ----
(***************************************************************************)
(* A model of the date engine of useDateFunctions (formatDateString,       *)
(* getRelativeTimeString, formatDate, getDateAgo, isDateWithinRange,       *)
(* getDateDifference, isDateBefore, isDateAfter, formatDateRange).         *)
(*                                                                         *)
(* Representation.  TLC's integers are 32 bits wide while the code works   *)
(* on epoch milliseconds (about 1.7 * 10^12), so an instant is kept as a   *)
(* record [valid, d, ms]: d whole days since 1970-01-01 (UTC) and ms the   *)
(* millisecond of that day, 0 .. 86399999.  The instant's getTime() is     *)
(* d * 86400000 + ms; every operator below computes on the pair what the   *)
(* code computes on the single number.  valid = FALSE is the Date whose     *)
(* getTime() is NaN.  A string is a sequence of one-character strings.      *)
(* The local time zone is a fixed offset tz (minutes east of UTC); zones    *)
(* with daylight-saving transitions are not modelled.                       *)
(*                                                                         *)
(* The hook useGitHubRepos is modelled beside it: its three pieces of      *)
(* React state, the options it is rendered with, and the promises of the   *)
(* fetches it has started (SpecRepos).  The request itself (the URL that   *)
(* fetchGitHubRepos builds) is not modelled: a fetch is a promise that is  *)
(* later fulfilled with some items or rejected with some error.            *)
(***************************************************************************)
EXTENDS Integers, Sequences, FiniteSets, TLC

VARIABLES now, tz, op, arg, ret

\* useGitHubRepos: the options of the last render, the three useState cells,
\* and one record per fetchRepos call so far, in the order of the calls.
VARIABLES options, repos, isLoading, error, fetches

dateVars == <<now, tz, op, arg, ret>>

hookVars == <<options, repos, isLoading, error, fetches>>

vars == <<now, tz, op, arg, ret, options, repos, isLoading, error, fetches>>

(***************************************************************************)
(* Numbers of the source.                                                  *)
(***************************************************************************)
MsPerSecond == 1000
MsPerMinute == 60000
MsPerHour == 3600000
MsPerDay == 86400000

(***************************************************************************)
(* The native Date: instants, local fields, setters.                       *)
(***************************************************************************)
NaNDate == [valid |-> FALSE, d |-> 0, ms |-> 0]

\* An instant from a day count and a millisecond count of any sign
\* (ECMAScript MakeDate: day * msPerDay + time).
MakeDate(day, time) ==
  [valid |-> TRUE, d |-> day + (time \div MsPerDay), ms |-> time % MsPerDay]

\* ECMAScript MakeTime(hour, min, sec, ms).
MakeTime(hour, min, sec, ms) ==
  hour * MsPerHour + min * MsPerMinute + sec * MsPerSecond + ms

\* Days since the epoch of the civil date (year, month 0..11 after
\* normalisation, day of month 1): ECMAScript MakeDay, months of any sign
\* carried into the year, the day of month added as a plain offset.
DaysFromCivil(y, m, d) ==
  LET yy == IF m <= 2 THEN y - 1 ELSE y
      era == yy \div 400
      yoe == yy - era * 400
      mp == IF m > 2 THEN m - 3 ELSE m + 9
      doy == (153 * mp + 2) \div 5 + d - 1
      doe == yoe * 365 + (yoe \div 4) - (yoe \div 100) + doy
  IN era * 146097 + doe - 719468

MakeDay(year, month, date) ==
  LET ym == year + (month \div 12)
      mn == month % 12
  IN DaysFromCivil(ym, mn + 1, 1) + date - 1

\* The civil date of a day count: [year, month 1..12, day 1..31].
CivilFromDays(z) ==
  LET zz == z + 719468
      era == zz \div 146097
      doe == zz - era * 146097
      yoe == (doe - (doe \div 1460) + (doe \div 36524) - (doe \div 146096)) \div 365
      doy == doe - (365 * yoe + (yoe \div 4) - (yoe \div 100))
      mp == (5 * doy + 2) \div 153
      dd == doy - ((153 * mp + 2) \div 5) + 1
      mm == IF mp < 10 THEN mp + 3 ELSE mp - 9
  IN [year |-> yoe + era * 400 + (IF mm <= 2 THEN 1 ELSE 0), month |-> mm, day |-> dd]

\* The instant shifted to local wall-clock time (LocalTime(t) = t + offset).
LocalTime(date, z) == MakeDate(date.d, date.ms + z * MsPerMinute)

\* The instant of a local wall-clock time (UTC(t) = t - offset).
UTCTime(local, z) == MakeDate(local.d, local.ms - z * MsPerMinute)

getFullYear(date, z) == CivilFromDays(LocalTime(date, z).d).year
\* 0-based, as Date.prototype.getMonth.
getMonth(date, z) == CivilFromDays(LocalTime(date, z).d).month - 1
getDate(date, z) == CivilFromDays(LocalTime(date, z).d).day
getDay(date, z) == (LocalTime(date, z).d + 4) % 7
getHours(date, z) == LocalTime(date, z).ms \div MsPerHour
getMinutes(date, z) == (LocalTime(date, z).ms % MsPerHour) \div MsPerMinute
getSeconds(date, z) == (LocalTime(date, z).ms % MsPerMinute) \div MsPerSecond
getMilliseconds(date, z) == LocalTime(date, z).ms % MsPerSecond

\* Date.prototype.setSeconds / setMinutes / setHours / setDate / setMonth /
\* setFullYear: the named local field replaced, the others kept, the result
\* renormalised (fields out of range roll over into the next larger field).
setSeconds(date, sec, z) ==
  UTCTime(MakeDate(LocalTime(date, z).d,
                   MakeTime(getHours(date, z), getMinutes(date, z), sec,
                            getMilliseconds(date, z))), z)

setMinutes(date, min, z) ==
  UTCTime(MakeDate(LocalTime(date, z).d,
                   MakeTime(getHours(date, z), min, getSeconds(date, z),
                            getMilliseconds(date, z))), z)

setHours(date, hour, z) ==
  UTCTime(MakeDate(LocalTime(date, z).d,
                   MakeTime(hour, getMinutes(date, z), getSeconds(date, z),
                            getMilliseconds(date, z))), z)

setDate(date, dt, z) ==
  UTCTime(MakeDate(MakeDay(getFullYear(date, z), getMonth(date, z), dt),
                   LocalTime(date, z).ms), z)

setMonth(date, month, z) ==
  UTCTime(MakeDate(MakeDay(getFullYear(date, z), month, getDate(date, z)),
                   LocalTime(date, z).ms), z)

setFullYear(date, year, z) ==
  UTCTime(MakeDate(MakeDay(year, getMonth(date, z), getDate(date, z)),
                   LocalTime(date, z).ms), z)

\* d1.getTime() - d2.getTime(), as [d, ms] with 0 <= ms < MsPerDay
\* (the difference is d * MsPerDay + ms).
DiffMs(d1, d2) ==
  [d |-> d1.d - d2.d + ((d1.ms - d2.ms) \div MsPerDay),
   ms |-> (d1.ms - d2.ms) % MsPerDay]

\* d1 >= d2 on two valid Dates (the comparison of their getTime()).
DateGe(d1, d2) == d1.d > d2.d \/ (d1.d = d2.d /\ d1.ms >= d2.ms)

(***************************************************************************)
(* Strings: sequences of one-character strings.                            *)
(***************************************************************************)
Digit(n) == <<"0", "1", "2", "3", "4", "5", "6", "7", "8", "9">>[n + 1]

\* Number.prototype.toString of an integer.
RECURSIVE NatToString(_)
NatToString(n) ==
  IF n < 10 THEN <<Digit(n)>> ELSE NatToString(n \div 10) \o <<Digit(n % 10)>>

toString(n) == IF n < 0 THEN <<"-">> \o NatToString(-n) ELSE NatToString(n)

\* String.prototype.padStart(2, '0').
padStart2(s) == IF Len(s) < 2 THEN <<"0">> \o s ELSE s

\* String.prototype.slice(-2).
sliceLast2(s) == IF Len(s) <= 2 THEN s ELSE SubSeq(s, Len(s) - 1, Len(s))

\* String.prototype.substring(0, 3).
substring03(s) == IF Len(s) <= 3 THEN s ELSE SubSeq(s, 1, 3)

\* String.prototype.replace(/pat/g, rep) for a literal pattern: one scan from
\* the left, matches taken where they start, never overlapping, and the
\* inserted text never scanned again.
RECURSIVE replaceAll(_, _, _)
replaceAll(s, pat, rep) ==
  IF Len(s) < Len(pat) THEN s
  ELSE IF SubSeq(s, 1, Len(pat)) = pat
       THEN rep \o replaceAll(SubSeq(s, Len(pat) + 1, Len(s)), pat, rep)
       ELSE <<Head(s)>> \o replaceAll(Tail(s), pat, rep)

(***************************************************************************)
(* formatDateString.                                                       *)
(***************************************************************************)
pad(num) == padStart2(toString(num))

monthNames ==
  << <<"J", "a", "n", "u", "a", "r", "y">>,
     <<"F", "e", "b", "r", "u", "a", "r", "y">>,
     <<"M", "a", "r", "c", "h">>,
     <<"A", "p", "r", "i", "l">>,
     <<"M", "a", "y">>,
     <<"J", "u", "n", "e">>,
     <<"J", "u", "l", "y">>,
     <<"A", "u", "g", "u", "s", "t">>,
     <<"S", "e", "p", "t", "e", "m", "b", "e", "r">>,
     <<"O", "c", "t", "o", "b", "e", "r">>,
     <<"N", "o", "v", "e", "m", "b", "e", "r">>,
     <<"D", "e", "c", "e", "m", "b", "e", "r">> >>

monthNamesShort == [i \in 1..12 |-> substring03(monthNames[i])]

dayNames ==
  << <<"S", "u", "n", "d", "a", "y">>,
     <<"M", "o", "n", "d", "a", "y">>,
     <<"T", "u", "e", "s", "d", "a", "y">>,
     <<"W", "e", "d", "n", "e", "s", "d", "a", "y">>,
     <<"T", "h", "u", "r", "s", "d", "a", "y">>,
     <<"F", "r", "i", "d", "a", "y">>,
     <<"S", "a", "t", "u", "r", "d", "a", "y">> >>

dayNamesShort == [i \in 1..7 |-> substring03(dayNames[i])]

InvalidDateString == <<"I", "n", "v", "a", "l", "i", "d", " ", "d", "a", "t", "e">>

\* A variant of hours12 that forgets the "|| 12".
hours12NoWrap(hours) == hours % 12

\* hours % 12 || 12
hours12(hours) == IF hours % 12 = 0 THEN 12 ELSE hours % 12

formatDateString(date, format, z) ==
  IF ~date.valid THEN InvalidDateString
  ELSE
  LET day == getDate(date, z)
      month == getMonth(date, z) + 1
      year == getFullYear(date, z)
      hours == getHours(date, z)
      minutes == getMinutes(date, z)
      seconds == getSeconds(date, z)
      r1 == replaceAll(format, <<"Y", "Y", "Y", "Y">>, toString(year))
      r2 == replaceAll(r1, <<"Y", "Y">>, sliceLast2(toString(year)))
      r3 == replaceAll(r2, <<"M", "M", "M", "M">>, monthNames[month])
      r4 == replaceAll(r3, <<"M", "M", "M">>, monthNamesShort[month])
      r5 == replaceAll(r4, <<"M", "M">>, pad(month))
      r6 == replaceAll(r5, <<"M">>, toString(month))
      r7 == replaceAll(r6, <<"D", "D">>, pad(day))
      r8 == replaceAll(r7, <<"D">>, toString(day))
      r9 == replaceAll(r8, <<"H", "H">>, pad(hours))
      r10 == replaceAll(r9, <<"H">>, toString(hours))
      r11 == replaceAll(r10, <<"h", "h">>, pad(hours12(hours)))
      r12 == replaceAll(r11, <<"h">>, toString(hours12(hours)))
      r13 == replaceAll(r12, <<"m", "m">>, pad(minutes))
      r14 == replaceAll(r13, <<"m">>, toString(minutes))
      r15 == replaceAll(r14, <<"s", "s">>, pad(seconds))
      r16 == replaceAll(r15, <<"s">>, toString(seconds))
      r17 == replaceAll(r16, <<"A">>, IF hours >= 12 THEN <<"P", "M">> ELSE <<"A", "M">>)
      r18 == replaceAll(r17, <<"a">>, IF hours >= 12 THEN <<"p", "m">> ELSE <<"a", "m">>)
      r19 == replaceAll(r18, <<"d", "d", "d", "d">>, dayNames[getDay(date, z) + 1])
  IN replaceAll(r19, <<"d", "d", "d">>, dayNamesShort[getDay(date, z) + 1])

(***************************************************************************)
(* getRelativeTimeString.                                                  *)
(***************************************************************************)
\* Variants of MathRound: halves rounded toward -infinity; Math.floor.
MathRoundHalfDown(a, b) == (2 * a + b - 1) \div (2 * b)

MathFloor(a, b) == a \div b

\* Math.round(a / b) for b > 0: the nearest integer, halves toward +infinity.
MathRound(a, b) == (2 * a + b) \div (2 * b)

\* Math.round(diffMs / 1000) of diffMs = diff.d * MsPerDay + diff.ms: the whole
\* days are a whole number of seconds, so only diff.ms is rounded.
diffSecOf(diff) == diff.d * 86400 + MathRound(diff.ms, MsPerSecond)

getRelativeTimeString(date, nowDate) ==
  IF ~date.valid THEN InvalidDateString
  ELSE
  LET diffMs == DiffMs(nowDate, date)
      diffSec == diffSecOf(diffMs)
      diffMin == MathRound(diffSec, 60)
      diffHour == MathRound(diffMin, 60)
      diffDay == MathRound(diffHour, 24)
      diffMonth == MathRound(diffDay, 30)
      diffYear == MathRound(diffDay, 365)
  IN IF diffSec < 5 THEN <<"j", "u", "s", "t", " ", "n", "o", "w">>
     ELSE IF diffSec < 60 THEN toString(diffSec) \o <<" ", "s", "e", "c", "o", "n", "d", "s", " ", "a", "g", "o">>
     ELSE IF diffMin < 60
          THEN (IF diffMin = 1 THEN <<"a", " ", "m", "i", "n", "u", "t", "e", " ", "a", "g", "o">> ELSE toString(diffMin) \o <<" ", "m", "i", "n", "u", "t", "e", "s", " ", "a", "g", "o">>)
     ELSE IF diffHour < 24
          THEN (IF diffHour = 1 THEN <<"a", "n", " ", "h", "o", "u", "r", " ", "a", "g", "o">> ELSE toString(diffHour) \o <<" ", "h", "o", "u", "r", "s", " ", "a", "g", "o">>)
     ELSE IF diffDay < 30
          THEN (IF diffDay = 1 THEN <<"y", "e", "s", "t", "e", "r", "d", "a", "y">> ELSE toString(diffDay) \o <<" ", "d", "a", "y", "s", " ", "a", "g", "o">>)
     ELSE IF diffMonth < 12
          THEN (IF diffMonth = 1 THEN <<"a", " ", "m", "o", "n", "t", "h", " ", "a", "g", "o">> ELSE toString(diffMonth) \o <<" ", "m", "o", "n", "t", "h", "s", " ", "a", "g", "o">>)
     ELSE (IF diffYear = 1 THEN <<"a", " ", "y", "e", "a", "r", " ", "a", "g", "o">> ELSE toString(diffYear) \o <<" ", "y", "e", "a", "r", "s", " ", "a", "g", "o">>)

(***************************************************************************)
(* formatDate.                                                             *)
(***************************************************************************)
Relative == <<"r", "e", "l", "a", "t", "i", "v", "e">>

DefaultFormat == <<"D", "D", " ", "M", "M", "M", "M", " ", "Y", "Y", "Y", "Y">>

\* A variant of formatOrDefault that forgets the "|| defaultFormat".
formatTypeOnly(formatType, defaultFormat) == formatType

\* formatType || defaultFormat: the empty string is falsy.
formatOrDefault(formatType, defaultFormat) ==
  IF formatType = <<>> THEN defaultFormat ELSE formatType

formatDate(date, formatType, defaultFormat, nowDate, z) ==
  IF ~date.valid THEN InvalidDateString
  ELSE IF formatType = Relative THEN getRelativeTimeString(date, nowDate)
  ELSE IF /\ getDate(date, z) = getDate(nowDate, z)
          /\ getMonth(date, z) = getMonth(nowDate, z)
          /\ getFullYear(date, z) = getFullYear(nowDate, z)
       THEN getRelativeTimeString(date, nowDate)
  ELSE formatDateString(date, formatOrDefault(formatType, defaultFormat), z)

(***************************************************************************)
(* getDateAgo and isDateWithinRange.                                       *)
(***************************************************************************)
DateUnits == {"second", "minute", "hour", "day", "week", "month", "quarter", "year"}

\* The Date `result` of getDateAgo after its switch.
getDateAgoResult(amount, unit, nowDate, z) ==
  CASE unit = "second" -> setSeconds(nowDate, getSeconds(nowDate, z) - amount, z)
    [] unit = "minute" -> setMinutes(nowDate, getMinutes(nowDate, z) - amount, z)
    [] unit = "hour" -> setHours(nowDate, getHours(nowDate, z) - amount, z)
    [] unit = "day" -> setDate(nowDate, getDate(nowDate, z) - amount, z)
    [] unit = "week" -> setDate(nowDate, getDate(nowDate, z) - (amount * 7), z)
    [] unit = "month" -> setMonth(nowDate, getMonth(nowDate, z) - amount, z)
    [] unit = "quarter" -> setMonth(nowDate, getMonth(nowDate, z) - (amount * 3), z)
    [] unit = "year" -> setFullYear(nowDate, getFullYear(nowDate, z) - amount, z)
    [] OTHER -> nowDate

getDateAgo(amount, unit, format, nowDate, z) ==
  formatDateString(getDateAgoResult(amount, unit, nowDate, z), format, z)

\* A variant of rangeDateOf whose quarter is one month and whose week is one
\* day.
rangeDateOfPlainAmount(amount, unit, nowDate, z) ==
  LET rangeDate == nowDate
  IN CASE unit = "second" -> setSeconds(rangeDate, getSeconds(rangeDate, z) - amount, z)
       [] unit = "minute" -> setMinutes(rangeDate, getMinutes(rangeDate, z) - amount, z)
       [] unit = "hour" -> setHours(rangeDate, getHours(rangeDate, z) - amount, z)
       [] unit = "day" -> setDate(rangeDate, getDate(rangeDate, z) - amount, z)
       [] unit = "week" -> setDate(rangeDate, getDate(rangeDate, z) - amount, z)
       [] unit = "month" -> setMonth(rangeDate, getMonth(rangeDate, z) - amount, z)
       [] unit = "quarter" -> setMonth(rangeDate, getMonth(rangeDate, z) - amount, z)
       [] unit = "year" -> setFullYear(rangeDate, getFullYear(rangeDate, z) - amount, z)
       [] OTHER -> rangeDate

\* The Date `rangeDate` of isDateWithinRange after its switch.
rangeDateOf(amount, unit, nowDate, z) ==
  LET rangeDate == nowDate
  IN CASE unit = "second" -> setSeconds(rangeDate, getSeconds(rangeDate, z) - amount, z)
       [] unit = "minute" -> setMinutes(rangeDate, getMinutes(rangeDate, z) - amount, z)
       [] unit = "hour" -> setHours(rangeDate, getHours(rangeDate, z) - amount, z)
       [] unit = "day" -> setDate(rangeDate, getDate(rangeDate, z) - amount, z)
       [] unit = "week" -> setDate(rangeDate, getDate(rangeDate, z) - (amount * 7), z)
       [] unit = "month" -> setMonth(rangeDate, getMonth(rangeDate, z) - amount, z)
       [] unit = "quarter" -> setMonth(rangeDate, getMonth(rangeDate, z) - (amount * 3), z)
       [] unit = "year" -> setFullYear(rangeDate, getFullYear(rangeDate, z) - amount, z)
       [] OTHER -> rangeDate

isDateWithinRange(date, amount, unit, nowDate, z) ==
  IF ~date.valid THEN FALSE
  ELSE DateGe(date, rangeDateOf(amount, unit, nowDate, z))

(***************************************************************************)
(* getDateDifference, isDateBefore, isDateAfter, formatDateRange.          *)
(***************************************************************************)
\* A variant of FloorDays that rounds toward zero (Math.trunc).
TruncDays(diff, num, den) ==
  IF diff.d >= 0
  THEN (diff.d * den + (diff.ms \div (MsPerDay \div den))) \div num
  ELSE LET negD == -diff.d - (IF diff.ms > 0 THEN 1 ELSE 0)
           negMs == (MsPerDay - diff.ms) % MsPerDay
       IN -((negD * den + (negMs \div (MsPerDay \div den))) \div num)

\* Math.floor(diffMs / f) for diffMs = diff.d * MsPerDay + diff.ms, where the
\* divisor f = MsPerDay * num / den of the source line is a whole number of
\* milliseconds and part == MsPerDay / den is whole:
\*   floor(diffMs / (part * num)) = floor(floor(diffMs / part) / num)
\* and floor(diffMs / part) = diff.d * den + floor(diff.ms / part).
FloorDays(diff, num, den) ==
  (diff.d * den + (diff.ms \div (MsPerDay \div den))) \div num

getDateDifference(date1, date2, unit) ==
  IF ~date1.valid \/ ~date2.valid THEN 0
  ELSE
  LET diffMs == DiffMs(date1, date2)
  IN CASE unit = "second" -> FloorDays(diffMs, 1, 86400)
       [] unit = "minute" -> FloorDays(diffMs, 1, 1440)
       [] unit = "hour" -> FloorDays(diffMs, 1, 24)
       [] unit = "day" -> FloorDays(diffMs, 1, 1)
       [] unit = "week" -> FloorDays(diffMs, 7, 1)
       [] unit = "month" -> FloorDays(diffMs, 487, 16)
       [] unit = "quarter" -> FloorDays(diffMs, 1461, 16)
       [] unit = "year" -> FloorDays(diffMs, 1461, 4)

\* A variant of isDateBefore whose month comparison forgets the year.
isDateBeforeMonthOnly(date1, date2, unit, z) ==
  IF ~date1.valid \/ ~date2.valid THEN FALSE
  ELSE IF unit = "day"
       THEN \/ getFullYear(date1, z) < getFullYear(date2, z)
            \/ getMonth(date1, z) < getMonth(date2, z)
            \/ (getFullYear(date1, z) = getFullYear(date2, z)
                /\ getMonth(date1, z) = getMonth(date2, z)
                /\ getDate(date1, z) < getDate(date2, z))
       ELSE getDateDifference(date1, date2, unit) < 0

isDateBefore(date1, date2, unit, z) ==
  IF ~date1.valid \/ ~date2.valid THEN FALSE
  ELSE IF unit = "day"
       THEN \/ getFullYear(date1, z) < getFullYear(date2, z)
            \/ (getFullYear(date1, z) = getFullYear(date2, z)
                /\ getMonth(date1, z) < getMonth(date2, z))
            \/ (getFullYear(date1, z) = getFullYear(date2, z)
                /\ getMonth(date1, z) = getMonth(date2, z)
                /\ getDate(date1, z) < getDate(date2, z))
       ELSE getDateDifference(date1, date2, unit) < 0

isDateAfter(date1, date2, unit, z) ==
  IF ~date1.valid \/ ~date2.valid THEN FALSE
  ELSE IF unit = "day"
       THEN \/ getFullYear(date1, z) > getFullYear(date2, z)
            \/ (getFullYear(date1, z) = getFullYear(date2, z)
                /\ getMonth(date1, z) > getMonth(date2, z))
            \/ (getFullYear(date1, z) = getFullYear(date2, z)
                /\ getMonth(date1, z) = getMonth(date2, z)
                /\ getDate(date1, z) > getDate(date2, z))
       ELSE getDateDifference(date1, date2, unit) > 0

InvalidDateRangeString == <<"I", "n", "v", "a", "l", "i", "d", " ", "d", "a", "t", "e", " ", "r", "a", "n", "g", "e">>

\* A variant of formatDateRange that tests only the start date.
formatDateRangeStartOnly(startDate, endDate, format, separator, z) ==
  IF ~startDate.valid THEN InvalidDateRangeString
  ELSE formatDateString(startDate, format, z) \o separator
       \o formatDateString(endDate, format, z)

formatDateRange(startDate, endDate, format, separator, z) ==
  IF ~startDate.valid \/ ~endDate.valid THEN InvalidDateRangeString
  ELSE formatDateString(startDate, format, z) \o separator
       \o formatDateString(endDate, format, z)

(***************************************************************************)
(* sortByDate.                                                             *)
(***************************************************************************)
\* order: SortOrder = 'desc' (the default of an omitted argument).
orderOrDefault(order) == IF order = "undefined" THEN "desc" ELSE order

\* The sign of d1.getTime() - d2.getTime(); NaN when either Date is invalid,
\* which Array.prototype.sort takes as +0.
signOfDifference(d1, d2) ==
  IF ~d1.valid \/ ~d2.valid THEN 0
  ELSE LET diff == DiffMs(d1, d2)
       IN IF diff.d < 0 THEN -1 ELSE IF diff.d = 0 /\ diff.ms = 0 THEN 0 ELSE 1

\* A variant of compareByDate with the two branches exchanged.
compareByDateSwapped(a, b, dateField, order) ==
  IF order = "desc" THEN signOfDifference(a[dateField], b[dateField])
  ELSE signOfDifference(b[dateField], a[dateField])

\* The comparator: order === 'desc' ? dateB - dateA : dateA - dateB.
compareByDate(a, b, dateField, order) ==
  IF order = "desc" THEN signOfDifference(b[dateField], a[dateField])
  ELSE signOfDifference(a[dateField], b[dateField])

\* Array.prototype.sort under a consistent comparator: the stable sort, here
\* by insertion; x goes after every element that does not compare greater.
RECURSIVE insertSorted(_, _, _, _)
insertSorted(x, sorted, dateField, order) ==
  IF sorted = <<>> THEN <<x>>
  ELSE IF compareByDate(Head(sorted), x, dateField, order) <= 0
       THEN <<Head(sorted)>> \o insertSorted(x, Tail(sorted), dateField, order)
       ELSE <<x>> \o sorted

RECURSIVE arraySort(_, _, _)
arraySort(array, dateField, order) ==
  IF array = <<>> THEN <<>>
  ELSE insertSorted(array[Len(array)],
                    arraySort(SubSeq(array, 1, Len(array) - 1), dateField, order),
                    dateField, order)

\* A variant of sortByDate that sorts the caller's array itself (data.sort).
sortByDateInPlace(data, dateField, order) ==
  [result |-> arraySort(data, dateField, orderOrDefault(order)),
   data |-> arraySort(data, dateField, orderOrDefault(order))]

\* [...data].sort(...): result is the sorted copy, data the caller's array as
\* the call leaves it.
sortByDate(data, dateField, order) ==
  [result |-> arraySort([i \in 1..Len(data) |-> data[i]], dateField, orderOrDefault(order)),
   data |-> data]

\* Every ordering of the elements of an array.
Orderings(array) ==
  { [i \in 1..Len(array) |-> array[f[i]]] :
      f \in {g \in [1..Len(array) -> 1..Len(array)] :
               \A i, j \in 1..Len(array) : g[i] = g[j] => i = j} }

\* What sortByDate may return: with a date field that is no instant the
\* comparator is not consistent, and the order Array.prototype.sort leaves is
\* implementation-defined (some ordering of the elements).
sortByDateOutcomes(data, dateField, order) ==
  IF \A i \in 1..Len(data) : data[i][dateField].valid
  THEN {sortByDate(data, dateField, order)}
  ELSE {[result |-> perm, data |-> data] : perm \in Orderings(data)}

(***************************************************************************)
(* getReadTime.                                                            *)
(***************************************************************************)
\* wordsPerMinute: number = 265.
DefaultWordsPerMinute == 265

\* The characters \s matches, of those the model's strings are made of.
IsWhitespace(c) == c \in {" ", "\n", "\t"}

RECURSIVE trimStart(_)
trimStart(s) ==
  IF s # <<>> /\ IsWhitespace(Head(s)) THEN trimStart(Tail(s)) ELSE s

RECURSIVE trimEnd(_)
trimEnd(s) ==
  IF s # <<>> /\ IsWhitespace(s[Len(s)]) THEN trimEnd(SubSeq(s, 1, Len(s) - 1)) ELSE s

\* String.prototype.trim.
trim(s) == trimEnd(trimStart(s))

\* The index of the first whitespace character of s at or after i, or
\* Len(s) + 1.
RECURSIVE pieceEnd(_, _)
pieceEnd(s, i) ==
  IF i > Len(s) \/ IsWhitespace(s[i]) THEN i ELSE pieceEnd(s, i + 1)

\* String.prototype.split(/\s+/): the pieces between the maximal runs of
\* whitespace, empty pieces included.  The empty string splits into one empty
\* piece.
RECURSIVE splitOnWhitespace(_)
splitOnWhitespace(s) ==
  LET end == pieceEnd(s, 1)
  IN IF end > Len(s) THEN <<s>>
     ELSE <<SubSeq(s, 1, end - 1)>>
          \o splitOnWhitespace(trimStart(SubSeq(s, end, Len(s))))

\* Math.ceil(a / b) for whole a >= 0 and b > 0.
MathCeil(a, b) == (a + b - 1) \div b

\* content is [absent, text]: absent for null and undefined.  !content holds
\* for those and for the empty string.
getReadTime(content, wordsPerMinute) ==
  IF content.absent \/ content.text = <<>> THEN 0
  ELSE LET wordCount == Len(splitOnWhitespace(trim(content.text)))
       IN MathCeil(wordCount, wordsPerMinute)

(***************************************************************************)
(* Inputs.                                                                 *)
(***************************************************************************)
\* Longest format string enumerated exhaustively over FormatAlphabet.
MaxFmtLen == 3
\* Largest amount passed to getDateAgo and isDateWithinRange.
MaxAmount == 2
\* Sampled deltas lie within Skew seconds of each bucket threshold.
Skew == 1
\* Sampled differences are up to MaxMult whole units, give or take 1 ms.
MaxMult == 1

\* new Date(year, month - 1, day, h, mi, s, ms) in UTC.
DateOf(y, m, d, h, mi, s, ms) == MakeDate(MakeDay(y, m - 1, d), MakeTime(h, mi, s, ms))

\* The instant `delta` (a [d, ms] pair) before `date`.
Before(date, delta) == MakeDate(date.d - delta.d, date.ms - delta.ms)

\* sec seconds and ms milliseconds as a [d, ms] difference.
Delta(sec, ms) ==
  [d |-> (sec \div 86400) + (((sec % 86400) * MsPerSecond + ms) \div MsPerDay),
   ms |-> ((sec % 86400) * MsPerSecond + ms) % MsPerDay]

TimeZones == {0, 180, -300}

NowSamples ==
  { DateOf(2024, 3, 7, 10, 0, 0, 0),
    DateOf(2024, 3, 31, 20, 59, 59, 999),
    DateOf(2024, 2, 29, 0, 0, 30, 250) }

FormatAlphabet == {"Y", "M", "D", "h", "m", "-"}

NamedFormats ==
  { <<"D", "D", " ", "M", "M", "M", "M", " ", "Y", "Y", "Y", "Y">>,
    <<"D", "D", " ", "M", "M", "M", " ", "Y", "Y", "Y", "Y">>,
    <<"Y", "Y", "Y", "Y", "-", "M", "M", "-", "D", "D">>,
    <<"Y", "Y", "/", "M", "/", "D">>,
    <<"H", "H", ":", "m", "m", ":", "s", "s">>,
    <<"h", "h", ":", "m", "m", " ", "A">>,
    <<"h", ":", "m", ":", "s", " ", "a">>,
    <<"d", "d", "d", "d", ",", " ", "D", " ", "M", "M", "M", "M">>,
    <<"d", "d", "d", " ", "M", "M", "M">>,
    <<"Y", "Y", "Y", "Y", "Y", "Y">>,
    <<"Y", "Y", "Y", "-", "D", "D", "D">>,
    <<"M", "M", "M", "M">>,
    <<"M", "M", "M">>,
    <<"d", "d", "d", "d">>,
    <<"d", "d", "d">>,
    <<"D", ".", "M", ".", "Y", "Y", "Y", "Y", " ", "H", ":", "m">> }

Formats ==
  NamedFormats \cup UNION {[1..n -> FormatAlphabet] : n \in 0..MaxFmtLen}

\* One instant in each month of 2024, and hours 0, 12, 13 and 23.
FormatDates ==
  {DateOf(2024, m, 7, 10, 5, 9, 0) : m \in 1..12}
    \cup { DateOf(2024, 3, 17, 0, 0, 0, 0), DateOf(2024, 3, 17, 12, 0, 0, 0),
           DateOf(2024, 11, 23, 13, 45, 30, 0), DateOf(2009, 12, 31, 23, 59, 59, 999) }

\* Whole-second deltas at which a bucket of getRelativeTimeString may change.
Thresholds ==
  {5, 60, 90, 3570, 3600, 5400, 84570, 86400, 129600, 2546970, 2592000,
   3888000, 29762970, 29808000, 31536000, 47304000}

RelativeDeltas ==
  {Delta(t + k, 0) : t \in Thresholds, k \in (-Skew)..Skew}
    \cup {Delta(0, 0), Delta(4, 499), Delta(4, 500), Delta(59, 499), Delta(59, 500),
          Delta(0, -1), Delta(-5, 0), Delta(-86400, 0)}

RelativeDates(nowDate) == {Before(nowDate, dl) : dl \in RelativeDeltas} \cup {NaNDate}

CalendarDates ==
  { DateOf(2024, 3, 7, 12, 0, 0, 0), DateOf(2024, 3, 7, 13, 30, 0, 0),
    DateOf(2024, 3, 7, 23, 0, 0, 0), DateOf(2024, 3, 7, 1, 0, 0, 0),
    DateOf(2024, 3, 10, 0, 0, 0, 0), DateOf(2024, 3, 7, 0, 0, 0, 0),
    DateOf(2023, 3, 7, 12, 0, 0, 0), DateOf(2024, 2, 7, 12, 0, 0, 0),
    DateOf(2023, 12, 31, 23, 59, 59, 999), DateOf(2024, 1, 1, 0, 0, 0, 0) }

\* The length of one unit as getDateDifference takes it, a [d, ms] pair.
UnitLength(unit) ==
  CASE unit = "second" -> Delta(1, 0)
    [] unit = "minute" -> Delta(60, 0)
    [] unit = "hour" -> Delta(3600, 0)
    [] unit = "day" -> Delta(86400, 0)
    [] unit = "week" -> [d |-> 7, ms |-> 0]
    [] unit = "month" -> [d |-> 30, ms |-> 37800000]
    [] unit = "quarter" -> [d |-> 91, ms |-> 27000000]
    [] unit = "year" -> [d |-> 365, ms |-> 21600000]

\* The instants n whole units and e milliseconds after `date`.
NearMultiples(date, unit) ==
  { MakeDate(date.d + n * UnitLength(unit).d, date.ms + n * UnitLength(unit).ms + e) :
      n \in (-MaxMult)..MaxMult, e \in -1..1 }

SecondDates(nowDate) ==
  { nowDate, DateOf(2024, 3, 7, 12, 0, 0, 0), DateOf(2024, 3, 7, 0, 0, 0, 0),
    DateOf(2023, 12, 31, 23, 59, 59, 999), NaNDate }

FirstDates(date2, unit) ==
  CalendarDates \cup {NaNDate}
    \cup (IF date2.valid THEN NearMultiples(date2, unit) ELSE {})

\* Dates around the boundaries of isDateWithinRange.
RangeDeltas ==
  { Delta(s, e) : s \in {0, 1, 60, 3600}, e \in -1..1 }
    \cup { [d |-> n, ms |-> 0] : n \in {1, 7, 14, 29, 30, 31, 60, 90, 91, 92, 365, 366, 731} }
    \cup { [d |-> n - 1, ms |-> MsPerDay - 1] : n \in {1, 7, 29, 91, 366} }
    \cup { [d |-> n, ms |-> 1] : n \in {1, 7, 29, 91, 366} }

RangeDates(nowDate) == {Before(nowDate, dl) : dl \in RangeDeltas} \cup {NaNDate}

Separators == { <<" ", "-", " ">>, <<" ", "t", "o", " ">> }

\* Longest array passed to sortByDate.
MaxArrayLen == 3

\* Objects with two date fields; two share a date, one has a field that is no
\* instant.
SortItems ==
  { [id |-> 1, created |-> DateOf(2024, 1, 2, 0, 0, 0, 0), updated |-> DateOf(2024, 3, 7, 12, 0, 0, 0)],
    [id |-> 2, created |-> DateOf(2024, 1, 1, 0, 0, 0, 0), updated |-> DateOf(2024, 3, 7, 12, 0, 0, 1)],
    [id |-> 3, created |-> DateOf(2024, 1, 1, 0, 0, 0, 0), updated |-> DateOf(2023, 12, 31, 23, 59, 59, 999)],
    [id |-> 4, created |-> DateOf(2024, 2, 29, 8, 30, 0, 0), updated |-> NaNDate] }

SortArrays == UNION {[1..n -> SortItems] : n \in 0..MaxArrayLen}

\* Longest content enumerated exhaustively over ContentAlphabet.
MaxContentLen == 4

ContentAlphabet == {"a", " ", "\n"}

MaxWords == 6

\* n words of one letter, one space after each.
WordsText(n) == [i \in 1..(2 * n) |-> IF i % 2 = 1 THEN "w" ELSE " "]

Contents ==
  {[absent |-> FALSE, text |-> t] :
     t \in UNION {[1..n -> ContentAlphabet] : n \in 0..MaxContentLen}}
    \cup { [absent |-> TRUE, text |-> <<>>],
           [absent |-> FALSE, text |-> WordsText(MaxWords)],
           [absent |-> FALSE, text |-> WordsText(MaxWords + 1)] }

WordsPerMinuteSamples == {1, 2, 3, DefaultWordsPerMinute}

(***************************************************************************)
(* The state machine: the ambient clock, and one action per operation.     *)
(* The functions are synchronous: a call is made when no call is under way *)
(* (op = "idle"), and leaves the operation's name in op, its inputs in arg *)
(* and what it returned in ret until the caller takes the result (Return). *)
(***************************************************************************)
\* The null of useState<Error | null>(null).
Null == "null"

\* The hook's state at its first render: useState([]), useState(true),
\* useState(null), and no fetch started yet.
useStateInit ==
  /\ repos = <<>>
  /\ isLoading = TRUE
  /\ error = Null
  /\ fetches = <<>>

Init ==
  /\ now \in NowSamples
  /\ tz \in TimeZones
  /\ op = "idle"
  /\ arg = [date |-> NaNDate]
  /\ ret = <<>>
  /\ options = [language |-> "typescript"]
  /\ useStateInit

\* The caller takes the result of the last call.
Return ==
  /\ op # "idle"
  /\ op' = "idle"
  /\ arg' = [date |-> NaNDate]
  /\ ret' = <<>>
  /\ UNCHANGED <<now, tz, hookVars>>

\* The clock advances between two calls.
Tick ==
  /\ op = "idle"
  /\ \E later \in NowSamples :
       /\ ~DateGe(now, later)
       /\ now' = later
  /\ UNCHANGED <<tz, op, arg, ret, hookVars>>

CallFormatDateString ==
  /\ op = "idle"
  /\ \E date \in FormatDates \cup {NaNDate}, format \in Formats :
       /\ arg' = [date |-> date, format |-> format]
       /\ ret' = formatDateString(date, format, tz)
  /\ op' = "formatDateString"
  /\ UNCHANGED <<now, tz, hookVars>>

CallGetRelativeTimeString ==
  /\ op = "idle"
  /\ \E date \in RelativeDates(now) :
       /\ arg' = [date |-> date]
       /\ ret' = getRelativeTimeString(date, now)
  /\ op' = "getRelativeTimeString"
  /\ UNCHANGED <<now, tz, hookVars>>

CallFormatDate ==
  /\ op = "idle"
  /\ \E date \in CalendarDates \cup {NaNDate} \cup {Before(now, dl) : dl \in {Delta(10800, 0), Delta(0, 0), Delta(86400, 0)}},
        formatType \in {Relative, <<>>, <<"Y", "Y", "Y", "Y", "-", "M", "M", "-", "D", "D">>, DefaultFormat},
        defaultFormat \in {DefaultFormat, <<"D", "/", "M">>} :
       /\ arg' = [date |-> date, formatType |-> formatType, defaultFormat |-> defaultFormat]
       /\ ret' = formatDate(date, formatType, defaultFormat, now, tz)
  /\ op' = "formatDate"
  /\ UNCHANGED <<now, tz, hookVars>>

CallGetDateAgo ==
  /\ op = "idle"
  /\ \E amount \in 0..MaxAmount, unit \in DateUnits,
        format \in {<<"Y", "Y", "Y", "Y", "-", "M", "M", "-", "D", "D">>, <<"H", "H", ":", "m", "m", ":", "s", "s">>} :
       /\ arg' = [date |-> NaNDate, amount |-> amount, unit |-> unit, format |-> format]
       /\ ret' = getDateAgo(amount, unit, format, now, tz)
  /\ op' = "getDateAgo"
  /\ UNCHANGED <<now, tz, hookVars>>

CallIsDateWithinRange ==
  /\ op = "idle"
  /\ \E date \in RangeDates(now), amount \in 0..MaxAmount, unit \in DateUnits :
       /\ arg' = [date |-> date, amount |-> amount, unit |-> unit]
       /\ ret' = isDateWithinRange(date, amount, unit, now, tz)
  /\ op' = "isDateWithinRange"
  /\ UNCHANGED <<now, tz, hookVars>>

CallGetDateDifference ==
  /\ op = "idle"
  /\ \E unit \in DateUnits, date2 \in SecondDates(now) :
       \E date1 \in FirstDates(date2, unit) :
         /\ arg' = [date |-> date1, date2 |-> date2, unit |-> unit]
         /\ ret' = getDateDifference(date1, date2, unit)
  /\ op' = "getDateDifference"
  /\ UNCHANGED <<now, tz, hookVars>>

CallIsDateBefore ==
  /\ op = "idle"
  /\ \E unit \in DateUnits, date2 \in SecondDates(now) :
       \E date1 \in FirstDates(date2, unit) :
         /\ arg' = [date |-> date1, date2 |-> date2, unit |-> unit]
         /\ ret' = isDateBefore(date1, date2, unit, tz)
  /\ op' = "isDateBefore"
  /\ UNCHANGED <<now, tz, hookVars>>

CallIsDateAfter ==
  /\ op = "idle"
  /\ \E unit \in DateUnits, date2 \in SecondDates(now) :
       \E date1 \in FirstDates(date2, unit) :
         /\ arg' = [date |-> date1, date2 |-> date2, unit |-> unit]
         /\ ret' = isDateAfter(date1, date2, unit, tz)
  /\ op' = "isDateAfter"
  /\ UNCHANGED <<now, tz, hookVars>>

CallFormatDateRange ==
  /\ op = "idle"
  /\ \E startDate \in {DateOf(2024, 3, 7, 12, 0, 0, 0), DateOf(2024, 6, 7, 10, 5, 9, 0), NaNDate},
        endDate \in {DateOf(2024, 7, 10, 0, 0, 0, 0), DateOf(2024, 10, 1, 8, 0, 0, 0), NaNDate},
        format \in {<<"D", "D", " ", "M", "M", "M", " ", "Y", "Y", "Y", "Y">>, <<"Y", "Y", "Y", "Y", "-", "M", "M", "-", "D", "D">>},
        separator \in Separators :
       /\ arg' = [date |-> startDate, date2 |-> endDate, format |-> format, separator |-> separator]
       /\ ret' = formatDateRange(startDate, endDate, format, separator, tz)
  /\ op' = "formatDateRange"
  /\ UNCHANGED <<now, tz, hookVars>>

CallSortByDate ==
  /\ op = "idle"
  /\ \E data \in SortArrays, dateField \in {"created", "updated"},
        order \in {"asc", "desc", "undefined"} :
       /\ arg' = [date |-> NaNDate, data |-> data, dateField |-> dateField, order |-> order]
       /\ ret' \in sortByDateOutcomes(data, dateField, order)
  /\ op' = "sortByDate"
  /\ UNCHANGED <<now, tz, hookVars>>

CallGetReadTime ==
  /\ op = "idle"
  /\ \E content \in Contents, wordsPerMinute \in WordsPerMinuteSamples :
       /\ arg' = [date |-> NaNDate, content |-> content, wordsPerMinute |-> wordsPerMinute]
       /\ ret' = getReadTime(content, wordsPerMinute)
  /\ op' = "getReadTime"
  /\ UNCHANGED <<now, tz, hookVars>>

Next ==
  \/ Tick
  \/ Return
  \/ CallFormatDateString
  \/ CallGetRelativeTimeString
  \/ CallFormatDate
  \/ CallGetDateAgo
  \/ CallIsDateWithinRange
  \/ CallGetDateDifference
  \/ CallIsDateBefore
  \/ CallIsDateAfter
  \/ CallFormatDateRange
  \/ CallSortByDate
  \/ CallGetReadTime

Spec == Init /\ [][Next]_vars

(***************************************************************************)
(* useGitHubRepos.  fetchRepos runs to its await in one step: it sets      *)
(* isLoading and clears error, and fetchGitHubRepos issues the request.    *)
(* The rest of fetchRepos runs when that request's promise settles, in     *)
(* whatever order the network answers.                                     *)
(***************************************************************************)
MaxFetches == 3

Languages == {"typescript", "go"}

\* data.items of a response.
ItemLists == {<<"repoA">>, <<"repoB">>}

\* What fetchGitHubRepos may throw: !response.ok, or fetch's own rejection.
Errors == {"GitHub API error: 403", "Failed to fetch"}

Pending(i) == fetches[i].state = "pending"

\* fetchRepos up to its await: setIsLoading(true), setError(null), the request.
fetchRepos(opts) ==
  /\ Len(fetches) < MaxFetches
  /\ isLoading' = TRUE
  /\ error' = Null
  /\ fetches' = Append(fetches, [options |-> opts, state |-> "pending", items |-> <<>>])
  /\ UNCHANGED repos

\* The effect's first run, after the first render.
Mount ==
  /\ fetches = <<>>
  /\ fetchRepos(options)
  /\ UNCHANGED <<options, dateVars>>

\* A render with a changed option: the effect's dependencies differ and it
\* calls the fetchRepos of that render.
ChangeOptions ==
  /\ fetches # <<>>
  /\ \E language \in Languages \ {options.language} :
       /\ options' = [language |-> language]
       /\ fetchRepos([language |-> language])
  /\ UNCHANGED dateVars

\* The caller invokes refetch.
Refetch ==
  /\ fetches # <<>>
  /\ fetchRepos(options)
  /\ UNCHANGED <<options, dateVars>>

\* A request's promise is fulfilled: setRepos(data), then setIsLoading(false).
Fulfil ==
  /\ \E i \in 1..Len(fetches), items \in ItemLists :
       /\ Pending(i)
       /\ fetches' = [fetches EXCEPT ![i].state = "fulfilled", ![i].items = items]
       /\ repos' = items
  /\ isLoading' = FALSE
  /\ UNCHANGED <<options, error, dateVars>>

\* A request's promise is rejected: setError(err), then setIsLoading(false).
Reject ==
  /\ \E i \in 1..Len(fetches), err \in Errors :
       /\ Pending(i)
       /\ fetches' = [fetches EXCEPT ![i].state = "rejected"]
       /\ error' = err
  /\ isLoading' = FALSE
  /\ UNCHANGED <<options, repos, dateVars>>

InitRepos ==
  /\ now = DateOf(2024, 3, 7, 12, 0, 0, 0)
  /\ tz = 0
  /\ op = "idle"
  /\ arg = [date |-> NaNDate]
  /\ ret = <<>>
  /\ options \in {[language |-> language] : language \in Languages}
  /\ useStateInit

NextRepos ==
  \/ Mount
  \/ ChangeOptions
  \/ Refetch
  \/ Fulfil
  \/ Reject

SpecRepos == InitRepos /\ [][NextRepos]_vars
(***************************************************************************)
(* Claims.                                                                 *)
(***************************************************************************)
ValidCall(name) == op = name /\ arg.date.valid

\* The local day number: whole days from the epoch to the local calendar day.
LocalDayNumber(date) == LocalTime(date, tz).d

\* C1: for a valid instant, formatDateString renders MMMM, MMM, dddd and ddd
\* as the full month name, its first three letters, the full weekday name and
\* its first three letters, and the default format "DD MMMM YYYY" as the
\* zero-padded day, the full month name and the four-digit year separated by
\* single spaces.
C1_NameTokensRendered ==
  ValidCall("formatDateString") =>
    LET local == CivilFromDays(LocalDayNumber(arg.date))
        monthName == monthNames[local.month]
        dayName == dayNames[((LocalDayNumber(arg.date) + 4) % 7) + 1]
    IN /\ arg.format = <<"M", "M", "M", "M">> => ret = monthName
       /\ arg.format = <<"M", "M", "M">> => ret = SubSeq(monthName, 1, 3)
       /\ arg.format = <<"d", "d", "d", "d">> => ret = dayName
       /\ arg.format = <<"d", "d", "d">> => ret = SubSeq(dayName, 1, 3)
       /\ arg.format = <<"D", "D", " ", "M", "M", "M", "M", " ", "Y", "Y", "Y", "Y">> =>
            ret = (IF local.day < 10 THEN <<"0">> ELSE <<>>) \o toString(local.day)
                  \o <<" ">> \o monthName \o <<" ">> \o toString(local.year)

\* The numeric tokens, the longer of each letter first.
NumericTokens ==
  << <<"Y", "Y", "Y", "Y">>, <<"Y", "Y">>, <<"M", "M">>, <<"M">>, <<"D", "D">>, <<"D">>, <<"H", "H">>,
     <<"H">>, <<"h", "h">>, <<"h">>, <<"m", "m">>, <<"m">>, <<"s", "s">>, <<"s">> >>

IsPrefix(pat, str) == Len(pat) <= Len(str) /\ SubSeq(str, 1, Len(pat)) = pat

\* The index in NumericTokens of the longest token str starts with, or 0.
TokenAt(str) ==
  IF \E i \in 1..Len(NumericTokens) : IsPrefix(NumericTokens[i], str)
  THEN CHOOSE i \in 1..Len(NumericTokens) :
         /\ IsPrefix(NumericTokens[i], str)
         /\ \A j \in 1..Len(NumericTokens) :
              IsPrefix(NumericTokens[j], str) => Len(NumericTokens[j]) <= Len(NumericTokens[i])
  ELSE 0

TwoDigits(n) == <<Digit((n \div 10) % 10), Digit(n % 10)>>

\* The field a numeric token stands for, of the local wall-clock time.
TokenField(i, date) ==
  LET local == CivilFromDays(LocalDayNumber(date))
      msOfDay == LocalTime(date, tz).ms
      hour == msOfDay \div MsPerHour
      hour12 == IF hour = 0 \/ hour = 12 THEN 12 ELSE IF hour > 12 THEN hour - 12 ELSE hour
      minute == (msOfDay \div MsPerMinute) % 60
      second == (msOfDay \div MsPerSecond) % 60
  IN CASE i = 1 -> toString(local.year)
       [] i = 2 -> TwoDigits(local.year)
       [] i = 3 -> TwoDigits(local.month)
       [] i = 4 -> toString(local.month)
       [] i = 5 -> TwoDigits(local.day)
       [] i = 6 -> toString(local.day)
       [] i = 7 -> TwoDigits(hour)
       [] i = 8 -> toString(hour)
       [] i = 9 -> TwoDigits(hour12)
       [] i = 10 -> toString(hour12)
       [] i = 11 -> TwoDigits(minute)
       [] i = 12 -> toString(minute)
       [] i = 13 -> TwoDigits(second)
       [] i = 14 -> toString(second)

\* One pass over the format string from the left, the longest numeric token
\* taken at each position, every other character copied.
RECURSIVE GreedyFormat(_, _)
GreedyFormat(str, date) ==
  IF str = <<>> THEN <<>>
  ELSE IF TokenAt(str) = 0 THEN <<Head(str)>> \o GreedyFormat(Tail(str), date)
  ELSE TokenField(TokenAt(str), date)
       \o GreedyFormat(SubSeq(str, Len(NumericTokens[TokenAt(str)]) + 1, Len(str)), date)

HasSubstring(str, pat) ==
  \E i \in 1..Len(str) : IsPrefix(pat, SubSeq(str, i, Len(str)))

\* A format string of numeric tokens and separators: no name token (MMMM,
\* MMM, dddd, ddd) and no meridiem token (A, a) occurs in it.
IsNumericFormat(format) ==
  /\ ~HasSubstring(format, <<"M", "M", "M">>)
  /\ ~HasSubstring(format, <<"d", "d", "d">>)
  /\ ~HasSubstring(format, <<"A">>)
  /\ ~HasSubstring(format, <<"a">>)

\* C2: on a valid instant and a format string of numeric tokens and
\* separators, formatDateString returns what one left-to-right pass taking the
\* longest token at each position returns (h and hh showing hour 0 as 12).
C2_NumericFormatIsGreedy ==
  (ValidCall("formatDateString") /\ IsNumericFormat(arg.format)) =>
    ret = GreedyFormat(arg.format, arg.date)

\* "YYYY-MM-DD" on 2024-03-07 gave "2024-03-07".
C2_Witness ==
  /\ ValidCall("formatDateString")
  /\ arg.format = <<"Y", "Y", "Y", "Y", "-", "M", "M", "-", "D", "D">>
  /\ arg.date = DateOf(2024, 3, 7, 10, 5, 9, 0)
  /\ ret = <<"2", "0", "2", "4", "-", "0", "3", "-", "0", "7">>

\* The rounded whole-second delta now - input of the last call.
DeltaSeconds ==
  LET diff == DiffMs(now, arg.date)
  IN diff.d * 86400 + ((diff.ms + 500) \div MsPerSecond)

EndsWith(str, suffix) ==
  Len(suffix) <= Len(str) /\ SubSeq(str, Len(str) - Len(suffix) + 1, Len(str)) = suffix

IsMinutesPhrase(str) == str = <<"a", " ", "m", "i", "n", "u", "t", "e", " ", "a", "g", "o">> \/ EndsWith(str, <<" ", "m", "i", "n", "u", "t", "e", "s", " ", "a", "g", "o">>)
IsHoursPhrase(str) == str = <<"a", "n", " ", "h", "o", "u", "r", " ", "a", "g", "o">> \/ EndsWith(str, <<" ", "h", "o", "u", "r", "s", " ", "a", "g", "o">>)
IsDaysPhrase(str) == str = <<"y", "e", "s", "t", "e", "r", "d", "a", "y">> \/ EndsWith(str, <<" ", "d", "a", "y", "s", " ", "a", "g", "o">>)

\* C3 as stated: a delta of 60 .. 3599 seconds yields a minutes phrase, of
\* 3600 .. 86399 seconds an hours phrase, of 86400 seconds to under 30 days a
\* days phrase.
C3_BucketsBySeconds ==
  ValidCall("getRelativeTimeString") =>
    /\ (60 <= DeltaSeconds /\ DeltaSeconds < 3600) => IsMinutesPhrase(ret)
    /\ (3600 <= DeltaSeconds /\ DeltaSeconds < 86400) => IsHoursPhrase(ret)
    /\ (86400 <= DeltaSeconds /\ DeltaSeconds < 2592000) => IsDaysPhrase(ret)

\* C3 amended: the buckets are those of the chained rounding.  A minutes
\* phrase is returned exactly for a delta of 60 .. 3569 seconds, an hours
\* phrase exactly for 3570 .. 84569 seconds and a days phrase exactly for
\* 84570 .. 2546969 seconds.
C3_BucketsByChainedRounding ==
  ValidCall("getRelativeTimeString") =>
    /\ IsMinutesPhrase(ret) <=> (60 <= DeltaSeconds /\ DeltaSeconds < 3570)
    /\ IsHoursPhrase(ret) <=> (3570 <= DeltaSeconds /\ DeltaSeconds < 84570)
    /\ IsDaysPhrase(ret) <=> (84570 <= DeltaSeconds /\ DeltaSeconds < 2546970)

\* A delta of 3570 seconds, under an hour, gave "an hour ago".
C3_Witness ==
  /\ ValidCall("getRelativeTimeString")
  /\ DiffMs(now, arg.date) = Delta(3570, 0)
  /\ ret = <<"a", "n", " ", "h", "o", "u", "r", " ", "a", "g", "o">>

\* C4: "just now" for a rounded delta under 5 seconds (that is, less than
\* 4500 ms, every later input included) and "{n} seconds ago" for a rounded
\* delta n of 5 .. 59 (at least n * 1000 - 500 ms and less than n * 1000 + 500).
C4_JustNowAndSeconds ==
  ValidCall("getRelativeTimeString") =>
    LET diff == DiffMs(now, arg.date)
    IN /\ (diff.d < 0 \/ (diff.d = 0 /\ diff.ms < 4500)) => ret = <<"j", "u", "s", "t", " ", "n", "o", "w">>
       /\ \A n \in 5..59 :
            (diff.d = 0 /\ n * 1000 - 500 <= diff.ms /\ diff.ms < n * 1000 + 500)
              => ret = toString(n) \o <<" ", "s", "e", "c", "o", "n", "d", "s", " ", "a", "g", "o">>

\* A delta of exactly 5 seconds gave "5 seconds ago".
C4_Witness ==
  /\ ValidCall("getRelativeTimeString")
  /\ DiffMs(now, arg.date) = Delta(5, 0)
  /\ ret = <<"5", " ", "s", "e", "c", "o", "n", "d", "s", " ", "a", "g", "o">>

\* C5: formatDate on a valid date returns the relative phrase when formatType
\* is "relative" or the date is on the local calendar day of now, and
\* otherwise formatDateString with formatType, or with defaultFormat when
\* formatType is empty.
C5_FormatDateDispatch ==
  ValidCall("formatDate") =>
    ret = IF arg.formatType = <<"r", "e", "l", "a", "t", "i", "v", "e">> \/ LocalDayNumber(arg.date) = LocalDayNumber(now)
          THEN getRelativeTimeString(arg.date, now)
          ELSE formatDateString(arg.date,
                                IF Len(arg.formatType) = 0 THEN arg.defaultFormat
                                ELSE arg.formatType, tz)

\* A date three hours before now, on the same local day, with "YYYY-MM-DD".
C5_Witness ==
  /\ ValidCall("formatDate")
  /\ arg.formatType = <<"Y", "Y", "Y", "Y", "-", "M", "M", "-", "D", "D">>
  /\ DiffMs(now, arg.date) = Delta(10800, 0)
  /\ LocalDayNumber(arg.date) = LocalDayNumber(now)
  /\ ret = <<"3", " ", "h", "o", "u", "r", "s", " ", "a", "g", "o">>

\* C6: on an input that is no instant every operation returns its sentinel:
\* "Invalid date" (formatDate, getRelativeTimeString), false (isDateBefore,
\* isDateAfter, isDateWithinRange), 0 (getDateDifference, either argument),
\* "Invalid date range" (formatDateRange, either endpoint).
C6_InvalidInputSentinels ==
  /\ (op \in {"formatDate", "getRelativeTimeString"} /\ ~arg.date.valid)
       => ret = <<"I", "n", "v", "a", "l", "i", "d", " ", "d", "a", "t", "e">>
  /\ (op = "isDateWithinRange" /\ ~arg.date.valid) => ret = FALSE
  /\ (op \in {"isDateBefore", "isDateAfter"} /\ (~arg.date.valid \/ ~arg.date2.valid))
       => ret = FALSE
  /\ (op = "getDateDifference" /\ (~arg.date.valid \/ ~arg.date2.valid)) => ret = 0
  /\ (op = "formatDateRange" /\ (~arg.date.valid \/ ~arg.date2.valid))
       => ret = <<"I", "n", "v", "a", "l", "i", "d", " ", "d", "a", "t", "e", " ", "r", "a", "n", "g", "e">>

\* formatDateRange with a valid start and an invalid end.
C6_Witness ==
  /\ op = "formatDateRange"
  /\ arg.date.valid
  /\ ~arg.date2.valid
  /\ ret = <<"I", "n", "v", "a", "l", "i", "d", " ", "d", "a", "t", "e", " ", "r", "a", "n", "g", "e">>

\* n units as a [d, ms] difference.  A unit is num / den days: a second is
\* 1000 ms = 1/86400 day, a minute 60 s, an hour 60 min, a day 24 h, a week
\* 7 days, a month 30.4375 = 487/16 days, a quarter 91.3125 = 1461/16 days, a
\* year 365.25 = 1461/4 days.
UnitsTimes(n, unit) ==
  LET num == CASE unit \in {"second", "minute", "hour", "day"} -> 1
               [] unit = "week" -> 7
               [] unit = "month" -> 487
               [] unit \in {"quarter", "year"} -> 1461
      den == CASE unit = "second" -> 24 * 60 * 60
               [] unit = "minute" -> 24 * 60
               [] unit = "hour" -> 24
               [] unit \in {"day", "week"} -> 1
               [] unit \in {"month", "quarter"} -> 16
               [] unit = "year" -> 4
  IN [d |-> (n * num) \div den, ms |-> ((n * num) % den) * (MsPerDay \div den)]

\* a <= b on two [d, ms] differences.
DiffLe(a, b) == a.d < b.d \/ (a.d = b.d /\ a.ms <= b.ms)

\* C7: for valid d1, d2 the result r of getDateDifference is the floor of
\* (d1 - d2) / F(unit): r * F(unit) <= d1 - d2 < (r + 1) * F(unit); 2024-03-10
\* minus 2024-03-07 in days is 3; a d1 1 ms before d2 gives -1.
C7_DifferenceIsFloor ==
  (ValidCall("getDateDifference") /\ arg.date2.valid) =>
    LET diff == DiffMs(arg.date, arg.date2)
    IN /\ DiffLe(UnitsTimes(ret, arg.unit), diff)
       /\ ~DiffLe(UnitsTimes(ret + 1, arg.unit), diff)
       /\ (arg.date = DateOf(2024, 3, 10, 0, 0, 0, 0)
           /\ arg.date2 = DateOf(2024, 3, 7, 0, 0, 0, 0) /\ arg.unit = "day") => ret = 3
       /\ diff = [d |-> -1, ms |-> MsPerDay - 1] => ret = -1

\* A d1 one millisecond before d2, in years.
C7_Witness ==
  /\ ValidCall("getDateDifference")
  /\ arg.date2.valid
  /\ DiffMs(arg.date, arg.date2) = [d |-> -1, ms |-> MsPerDay - 1]
  /\ arg.unit = "year"
  /\ ret = -1

\* C8: for valid date1 and date2, getDateDifference is positive if date1 is
\* after date2.
C8_PositiveWhenAfter ==
  (ValidCall("getDateDifference") /\ arg.date2.valid
     /\ ~DateGe(arg.date2, arg.date)) => ret > 0

\* C9: with unit day, isDateBefore holds exactly when the local calendar day
\* of d1 is earlier than that of d2 (its year, month, day triple is smaller),
\* isDateAfter exactly when it is later; on the same local day both are false.
C9_DayUnitComparesCalendarDays ==
  /\ (ValidCall("isDateBefore") /\ arg.date2.valid /\ arg.unit = "day") =>
       ret = (LocalDayNumber(arg.date) < LocalDayNumber(arg.date2))
  /\ (ValidCall("isDateAfter") /\ arg.date2.valid /\ arg.unit = "day") =>
       ret = (LocalDayNumber(arg.date) > LocalDayNumber(arg.date2))

\* Two instants of one local day, the first earlier: not before.
C9_Witness ==
  /\ ValidCall("isDateBefore")
  /\ arg.date2.valid
  /\ arg.unit = "day"
  /\ LocalDayNumber(arg.date) = LocalDayNumber(arg.date2)
  /\ ~DateGe(arg.date, arg.date2)
  /\ ret = FALSE

\* C10: on a valid date isDateWithinRange returns date >= B, B the Date of
\* getDateAgo for the same now, amount and unit; B is now less amount seconds,
\* minutes, hours or days, or less 7 * amount days for weeks.
C10_RangeBoundaryIsDateAgo ==
  ValidCall("isDateWithinRange") =>
    /\ ret = DateGe(arg.date, getDateAgoResult(arg.amount, arg.unit, now, tz))
    /\ arg.unit \in {"second", "minute", "hour", "day", "week"} =>
         ret = DateGe(arg.date,
                      Before(now, UnitsTimes(arg.amount, arg.unit)))

\* One month before the local 31 March is 31 February, that is 2 March, 29
\* days before now: a date at that instant is within the range.
C10_Witness ==
  /\ ValidCall("isDateWithinRange")
  /\ arg.unit = "month"
  /\ arg.amount = 1
  /\ getDate(now, tz) = 31
  /\ DiffMs(now, arg.date) = [d |-> 29, ms |-> 0]
  /\ ret = TRUE

\* C11: on an array whose date fields are all instants, sortByDate returns a
\* reordering of the array's elements, non-increasing in the date field for
\* "desc" (and for no order given), non-decreasing for "asc", and leaves the
\* array as it was.
C11_SortedCopy ==
  (op = "sortByDate" /\ \A i \in 1..Len(arg.data) : arg.data[i][arg.dateField].valid) =>
    LET n == Len(arg.data)
        out == ret.result
    IN /\ Len(out) = n
       /\ \E f \in [1..n -> 1..n] :
            /\ \A i, j \in 1..n : f[i] = f[j] => i = j
            /\ \A i \in 1..n : out[i] = arg.data[f[i]]
       /\ \A i, j \in 1..n :
            i < j => IF arg.order = "asc"
                     THEN DateGe(out[j][arg.dateField], out[i][arg.dateField])
                     ELSE DateGe(out[i][arg.dateField], out[j][arg.dateField])
       /\ ret.data = arg.data

\* [{2024-01-02}, {2024-01-01}] sorted "asc": the two in the other order, the
\* array itself unchanged.
C11_Witness ==
  /\ op = "sortByDate"
  /\ arg.order = "asc"
  /\ arg.dateField = "created"
  /\ Len(arg.data) = 2
  /\ arg.data[1].id = 1
  /\ arg.data[2].id = 2
  /\ ret.result = <<arg.data[2], arg.data[1]>>
  /\ ret.data = arg.data

\* The words of a text: its maximal runs of characters that are not
\* whitespace, counted by where each starts.
WordCount(text) ==
  Cardinality({i \in 1..Len(text) :
                 /\ ~(text[i] \in {" ", "\n", "\t"})
                 /\ (i = 1 \/ text[i - 1] \in {" ", "\n", "\t"})})

\* C12: getReadTime returns ceil(W / wordsPerMinute), W the number of words of
\* the content (the least n with n * wordsPerMinute >= W), and 0 for empty or
\* absent content; twice wordsPerMinute words (530 at 265) give 2.
C12_ReadTimeIsCeilOfWords ==
  op = "getReadTime" =>
    LET W == WordCount(arg.content.text)
    IN /\ (arg.content.absent \/ arg.content.text = <<>>) => ret = 0
       /\ ~arg.content.absent =>
            /\ ret * arg.wordsPerMinute >= W
            /\ (ret - 1) * arg.wordsPerMinute < W
       /\ (W > 0 /\ W = 2 * arg.wordsPerMinute) => ret = 2

\* C13: on valid instants a and b and every unit u, isDateBefore(a, b, u) holds
\* exactly when isDateAfter(b, a, u) holds, and isDateBefore(a, b, u) and
\* isDateAfter(a, b, u) are never both true.
C13_BeforeMirrorsAfter ==
  /\ (ValidCall("isDateBefore") /\ arg.date2.valid) =>
       /\ ret = isDateAfter(arg.date2, arg.date, arg.unit, tz)
       /\ ~(ret /\ isDateAfter(arg.date, arg.date2, arg.unit, tz))
  /\ (ValidCall("isDateAfter") /\ arg.date2.valid) =>
       /\ ret = isDateBefore(arg.date2, arg.date, arg.unit, tz)
       /\ ~(ret /\ isDateBefore(arg.date, arg.date2, arg.unit, tz))

PluralSuffixes ==
  { <<" ", "m", "i", "n", "u", "t", "e", "s", " ", "a", "g", "o">>,
    <<" ", "h", "o", "u", "r", "s", " ", "a", "g", "o">>,
    <<" ", "d", "a", "y", "s", " ", "a", "g", "o">>,
    <<" ", "m", "o", "n", "t", "h", "s", " ", "a", "g", "o">>,
    <<" ", "y", "e", "a", "r", "s", " ", "a", "g", "o">> }

IsNumeral(str) ==
  Len(str) > 0 /\ \A i \in 1..Len(str) : \E n \in 0..9 : str[i] = Digit(n)

RECURSIVE NumeralValue(_)
NumeralValue(str) ==
  IF str = <<>> THEN 0
  ELSE 10 * NumeralValue(SubSeq(str, 1, Len(str) - 1))
       + (CHOOSE n \in 0..9 : str[Len(str)] = Digit(n))

\* C14: the count printed by getRelativeTimeString before "minutes ago",
\* "hours ago", "days ago", "months ago" or "years ago" is a numeral of value
\* at least 2: never 0, and never 1, which has the singular phrase.
C14_PluralCountAtLeastTwo ==
  ValidCall("getRelativeTimeString") =>
    \A suffix \in PluralSuffixes :
      EndsWith(ret, suffix) =>
        LET count == SubSeq(ret, 1, Len(ret) - Len(suffix))
        IN IsNumeral(count) /\ NumeralValue(count) >= 2

\* The least delta of the years bucket, 29762970 seconds (344.5 days, chained
\* to 345 days, 12 months, 1 year), gave the singular "a year ago".
C14_Witness ==
  /\ ValidCall("getRelativeTimeString")
  /\ DiffMs(now, arg.date) = Delta(29762970, 0)
  /\ ret = <<"a", " ", "y", "e", "a", "r", " ", "a", "g", "o">>

\* C15: once every started fetch has settled the exposed state reflects the
\* most recently started one (isLoading false, error null exactly when it
\* succeeded, repos its items if it succeeded), and isLoading is never false
\* while a started fetch is in flight.
C15_StateReflectsLatestFetch ==
  LET started == Len(fetches)
  IN /\ (started > 0 /\ \A i \in 1..started : ~Pending(i)) =>
          /\ isLoading = FALSE
          /\ (error = Null) <=> (fetches[started].state = "fulfilled")
          /\ fetches[started].state = "fulfilled" => repos = fetches[started].items
     /\ (\E i \in 1..started : Pending(i)) => isLoading = TRUE
====
